---- MODULE Spec2Model ----
(***************************************************************************)
(* Model of the role tag blacklist tidy operation of the AWS auth backend  *)
(* (builtin/credential/aws/path_tidy_roletag_blacklist.go).                *)
(*                                                                         *)
(* Each process is one caller of pathTidyRoletagBlacklistUpdate on a       *)
(* backend instance; the storage is the logical.Storage the request        *)
(* carries.  Every storage call and every access to the CAS guard is one   *)
(* step, so concurrent invocations interleave between them.                *)
(***************************************************************************)
EXTENDS Integers, Sequences, FiniteSets, TLC

(* ---------------- bounds ---------------- *)
MaxNow == 2
MaxExp == 1
MaxBuffer == 1
MaxWrites == 1

(* ---------------- callers and backends ---------------- *)
Procs == {"p1", "p2", "p3"}
Backends == {"b1", "b2"}
BackendOf(p) == IF p = "p3" THEN "b2" ELSE "b1"

Tags == {"a", "b"}

(* ---------------- storage keys ---------------- *)
ListPrefix == "blacklist/roletag/"
GetKey(tag) == "blacklist/roletag/" \o tag
(* the key of the other tag *)
DeleteKeyOther(tag) == "blacklist/roletag/" \o (IF tag = "a" THEN "b" ELSE "a")
DeleteKey(tag) == "blacklist/roletag" \o tag

HasPrefix(k, pre) == Len(k) >= Len(pre) /\ SubSeq(k, 1, Len(pre)) = pre
TrimPrefix(k, pre) == SubSeq(k, Len(pre) + 1, Len(k))

(* ---------------- stored values ---------------- *)
EncodeJSON(t) == "{\"expiration_time\":" \o ToString(t) \o "}"
Garbage == "not json"
Values == {"", Garbage} \cup {EncodeJSON(t) : t \in 0..MaxExp}
Decodable(v) == \E t \in 0..MaxExp : v = EncodeJSON(t)
DecodeJSON(v) == CHOOSE t \in 0..MaxExp : v = EncodeJSON(t)

(* ---------------- errors ---------------- *)
NoTag == ""
Nil == [kind |-> "nil", tag |-> NoTag, cause |-> "nil"]
StorageErr(op) == [kind |-> "storage", tag |-> NoTag, cause |-> op]
DecodeErr == [kind |-> "decode", tag |-> NoTag, cause |-> "json"]
AlreadyRunning == [kind |-> "already running", tag |-> NoTag, cause |-> "nil"]
(* the message leaves the tag out *)
WrapfUntagged(msg, tag, e) == [kind |-> msg, tag |-> NoTag, cause |-> e.cause]
Wrapf(msg, tag, e) == [kind |-> msg, tag |-> tag, cause |-> e.cause]
Errorf(msg, tag) == [kind |-> msg, tag |-> tag, cause |-> "nil"]

VARIABLES tidyBlacklistCASGuard, storage, now,
          pc, bufferDuration, tags, idx, result, err,
          trace, evals, removed, undisturbed, sameNow, follows, lastSweep, writes

vars == <<tidyBlacklistCASGuard, storage, now,
          pc, bufferDuration, tags, idx, result, err,
          trace, evals, removed, undisturbed, sameNow, follows, lastSweep, writes>>

(* History kept for the properties.  Of the invocation in progress: trace  *)
(* is the storage calls it made, evals the expiry decisions it took,       *)
(* removed the keys its Delete calls took out of the storage, undisturbed  *)
(* whether nobody else changed the storage since it started, sameNow       *)
(* whether the clock has stood still since it started, follows whether it  *)
(* started directly after the sweep recorded in lastSweep.  lastSweep is   *)
(* the last sweep that returned nil undisturbed and within one instant,    *)
(* as long as clock and storage are as it left them; writes is the number  *)
(* of writes of other actors so far.                                       *)

(* the orders in which List may return a set of key suffixes *)
Orderings(S) == {s \in [1..Cardinality(S) -> S] : \A i, j \in DOMAIN s : i # j => s[i] # s[j]}

ListKeys(st, pre) == {TrimPrefix(k, pre) : k \in {x \in DOMAIN st : HasPrefix(x, pre)}}

Remove(st, k) == [x \in (DOMAIN st) \ {k} |-> st[x]]
Store(st, k, v) == [x \in (DOMAIN st) \cup {k} |-> IF x = k THEN v ELSE st[x]]

Op(op, key, res) == [op |-> op, key |-> key, res |-> res]
Called(p, op, key, res) == trace' = [trace EXCEPT ![p] = Append(@, Op(op, key, res))]

NoSweep == [valid |-> FALSE, buf |-> 0]

(* p is between a successful CAS (0 -> 1) and its return *)
Holding(p) == pc[p] \in {"list", "get", "eval", "delete", "return"}

StoreStates == UNION {[{GetKey(t) : t \in S} -> Values] : S \in SUBSET Tags}

(* the callers have not called yet; the clock shows t0 and other actors    *)
(* have written w0 times                                                   *)
InitAt(callers, stores, t0, w0) ==
    /\ tidyBlacklistCASGuard = [b \in Backends |-> 0]
    /\ storage \in stores
    /\ now = t0
    /\ pc = [p \in Procs |-> IF p \in callers THEN "idle" ELSE "off"]
    /\ bufferDuration = [p \in Procs |-> 0]
    /\ tags = [p \in Procs |-> <<>>]
    /\ idx = [p \in Procs |-> 1]
    /\ result = [p \in Procs |-> 0]
    /\ err = [p \in Procs |-> Nil]
    /\ trace = [p \in Procs |-> <<>>]
    /\ evals = [p \in Procs |-> <<>>]
    /\ removed = [p \in Procs |-> {}]
    /\ undisturbed = [p \in Procs |-> TRUE]
    /\ sameNow = [p \in Procs |-> TRUE]
    /\ follows = [p \in Procs |-> FALSE]
    /\ lastSweep = NoSweep
    /\ writes = w0

InitWith(callers, stores) == InitAt(callers, stores, 0, 0)

(* two callers of one backend, one tag blacklisted *)
Init == InitWith({"p1", "p2"}, {[k \in {GetKey("a")} |-> EncodeJSON(0)]})

(* one caller, any content of the blacklist *)
InitSweep == InitWith({"p1"}, StoreStates)

(* one caller on each of two backends that share the storage, late in the *)
(* day: the clock has one tick left and other actors one write             *)
InitBackends ==
    InitAt({"p1", "p3"}, {[k \in {GetKey("a")} |-> EncodeJSON(0)]}, MaxNow - 1, MaxWrites - 1)

(* two callers of one backend, late in the day *)
InitLate ==
    InitAt({"p1", "p2"}, {[k \in {GetKey("a")} |-> EncodeJSON(0)]}, MaxNow - 1, MaxWrites - 1)

(* the result of the CAS is ignored: every invocation goes on *)
GrabbedAlways(p) == TRUE

(* one guard for all backends, a bare global *)
GrabbedGlobal(p) == \A b \in Backends : tidyBlacklistCASGuard[b] = 0

(* line 37: atomic.CompareAndSwapUint32(&b.tidyBlacklistCASGuard, 0, 1) succeeds *)
Grabbed(p) == tidyBlacklistCASGuard[BackendOf(p)] = 0

(* the store is deferred before the CAS is looked at: a rejected           *)
(* invocation resets the guard too                                         *)
InvokeDeferFirst(p, safety_buffer) ==
    /\ pc[p] \in {"idle", "done"}
    /\ IF Grabbed(p)
       THEN /\ tidyBlacklistCASGuard' = [tidyBlacklistCASGuard EXCEPT ![BackendOf(p)] = 1]
            /\ pc' = [pc EXCEPT ![p] = "list"]
            /\ err' = [err EXCEPT ![p] = Nil]
            /\ bufferDuration' = [bufferDuration EXCEPT ![p] = safety_buffer]
            /\ follows' = [follows EXCEPT ![p] = lastSweep.valid]
            /\ UNCHANGED sameNow
       ELSE /\ pc' = [pc EXCEPT ![p] = "done"]
            /\ err' = [err EXCEPT ![p] = AlreadyRunning]
            /\ tidyBlacklistCASGuard' = [tidyBlacklistCASGuard EXCEPT ![BackendOf(p)] = 0]
            /\ UNCHANGED <<bufferDuration, follows, sameNow>>
    /\ UNCHANGED <<storage, now, tags, idx, result,
                   trace, evals, removed, undisturbed, lastSweep, writes>>

(* line 36-44: a call of tidyBlacklistRoleTag: the CAS on the guard and,   *)
(* when it fails, the return                                               *)
Invoke(p, safety_buffer) ==
    /\ pc[p] \in {"idle", "done"}
    /\ IF Grabbed(p)
       THEN /\ tidyBlacklistCASGuard' = [tidyBlacklistCASGuard EXCEPT ![BackendOf(p)] = 1]
            /\ pc' = [pc EXCEPT ![p] = "list"]
            /\ err' = [err EXCEPT ![p] = Nil]
            /\ bufferDuration' = [bufferDuration EXCEPT ![p] = safety_buffer]
            /\ follows' = [follows EXCEPT ![p] = lastSweep.valid]
            /\ UNCHANGED sameNow
       ELSE /\ pc' = [pc EXCEPT ![p] = "done"]
            /\ err' = [err EXCEPT ![p] = AlreadyRunning]
            /\ UNCHANGED <<tidyBlacklistCASGuard, bufferDuration, follows, sameNow>>
    /\ UNCHANGED <<storage, now, tags, idx, result,
                   trace, evals, removed, undisturbed, lastSweep, writes>>

(* "continue" in place of "return": the error is kept and the loop goes on *)
AbortContinue(p, e) ==
    /\ err' = [err EXCEPT ![p] = e]
    /\ idx' = [idx EXCEPT ![p] = @ + 1]
    /\ pc' = [pc EXCEPT ![p] = IF idx[p] + 1 > Len(tags[p]) THEN "return" ELSE "get"]

(* the error is dropped and the loop goes on *)
AbortSwallow(p, e) ==
    /\ UNCHANGED err
    /\ idx' = [idx EXCEPT ![p] = @ + 1]
    /\ pc' = [pc EXCEPT ![p] = IF idx[p] + 1 > Len(tags[p]) THEN "return" ELSE "get"]

(* the error is wrapped once more before it is returned *)
AbortWrapped(p, e) ==
    /\ err' = [err EXCEPT ![p] = Wrapf("tidy failed", NoTag, e)]
    /\ pc' = [pc EXCEPT ![p] = "return"]
    /\ UNCHANGED idx

(* the failed call is issued again in place of the return *)
AbortRetry(p, e) ==
    /\ err' = [err EXCEPT ![p] = e]
    /\ UNCHANGED <<pc, idx>>

(* a "return <error>" of the function (line 47, 53, 57, 61, 66, 71): the   *)
(* loop is left at the current tag                                         *)
Abort(p, e) ==
    /\ err' = [err EXCEPT ![p] = e]
    /\ pc' = [pc EXCEPT ![p] = "return"]
    /\ UNCHANGED idx

(* an empty listing is taken for a failure *)
NextTagEmptyFails(p, n, ts) ==
    /\ idx' = [idx EXCEPT ![p] = n]
    /\ pc' = [pc EXCEPT ![p] = IF n > Len(ts) THEN "return" ELSE "get"]
    /\ err' = [err EXCEPT ![p] = IF Len(ts) = 0 THEN Errorf("no tags", NoTag) ELSE @]

(* a "return nil" inside the loop: only the first listed tag is processed *)
NextTagOnce(p, n, ts) ==
    /\ idx' = [idx EXCEPT ![p] = n]
    /\ pc' = [pc EXCEPT ![p] = IF n > Len(ts) \/ n > 1 THEN "return" ELSE "get"]
    /\ UNCHANGED err

(* the range loop steps over one tag too many *)
NextTagSkip(p, n, ts) ==
    /\ idx' = [idx EXCEPT ![p] = n + 1]
    /\ pc' = [pc EXCEPT ![p] = IF n + 1 > Len(ts) THEN "return" ELSE "get"]
    /\ UNCHANGED err

(* line 50 and 76: the loop goes on to the next tag, or is over and the    *)
(* function returns nil                                                    *)
NextTag(p, n, ts) ==
    /\ idx' = [idx EXCEPT ![p] = n]
    /\ pc' = [pc EXCEPT ![p] = IF n > Len(ts) THEN "return" ELSE "get"]
    /\ UNCHANGED err

(* line 45-48: s.List *)
List(p) ==
    /\ pc[p] = "list"
    /\ \/ /\ Called(p, "List", ListPrefix, "error")
          /\ UNCHANGED tags
          /\ Abort(p, StorageErr("list"))
       \/ /\ Called(p, "List", ListPrefix, "keys")
          /\ \E s \in Orderings(ListKeys(storage, ListPrefix)) :
                /\ tags' = [tags EXCEPT ![p] = s]
                /\ NextTag(p, 1, s)
    /\ UNCHANGED <<tidyBlacklistCASGuard, storage, now, bufferDuration, result,
                   evals, removed, undisturbed, sameNow, follows, lastSweep, writes>>

(* line 51-67: s.Get of the current tag, the nil and empty checks, DecodeJSON *)
Get(p) ==
    /\ pc[p] = "get"
    /\ LET tag == tags[p][idx[p]]
           key == GetKey(tag)
       IN \/ /\ Called(p, "Get", key, "error")
             /\ Abort(p, Wrapf("error fetching tag", tag, StorageErr("get")))
             /\ UNCHANGED result
          \/ IF key \notin DOMAIN storage
             THEN /\ Called(p, "Get", key, "nil")
                  /\ Abort(p, Errorf("tag entry is nil", tag))
                  /\ UNCHANGED result
             ELSE /\ Called(p, "Get", key, storage[key])
                  /\ IF Len(storage[key]) = 0
                     THEN /\ Abort(p, Errorf("actual tag is empty", tag))
                          /\ UNCHANGED result
                     ELSE IF ~Decodable(storage[key])
                     THEN /\ Abort(p, DecodeErr)
                          /\ UNCHANGED result
                     ELSE /\ result' = [result EXCEPT ![p] = DecodeJSON(storage[key])]
                          /\ pc' = [pc EXCEPT ![p] = "eval"]
                          /\ UNCHANGED <<err, idx>>
    /\ UNCHANGED <<tidyBlacklistCASGuard, storage, now, bufferDuration, tags,
                   evals, removed, undisturbed, sameNow, follows, lastSweep, writes>>

(* the comparison is not strict *)
AfterOrAt(t, u) == t >= u

(* line 69: time.Now().After(result.ExpirationTime.Add(bufferDuration)) *)
After(t, u) == t > u

Eval(p) ==
    /\ pc[p] = "eval"
    /\ evals' = [evals EXCEPT ![p] = Append(@, [tag |-> tags[p][idx[p]], exp |-> result[p], at |-> now])]
    /\ IF After(now, result[p] + bufferDuration[p])
       THEN /\ pc' = [pc EXCEPT ![p] = "delete"]
            /\ UNCHANGED <<idx, err>>
       ELSE NextTag(p, idx[p] + 1, tags[p])
    /\ UNCHANGED <<tidyBlacklistCASGuard, storage, now, bufferDuration, tags, result,
                   trace, removed, undisturbed, sameNow, follows, lastSweep, writes>>

(* line 70-73: s.Delete *)
Delete(p) ==
    /\ pc[p] = "delete"
    /\ LET tag == tags[p][idx[p]]
           key == DeleteKey(tag)
       IN \/ /\ Called(p, "Delete", key, "error")
             /\ Abort(p, Wrapf("error deleting tag", tag, StorageErr("delete")))
             /\ UNCHANGED <<storage, removed, undisturbed, follows, lastSweep>>
          \/ /\ Called(p, "Delete", key, "ok")
             /\ storage' = Remove(storage, key)
             /\ NextTag(p, idx[p] + 1, tags[p])
             /\ IF key \in DOMAIN storage
                THEN /\ removed' = [removed EXCEPT ![p] = @ \cup {key}]
                     /\ undisturbed' = [q \in Procs |-> undisturbed[q] /\ (q = p \/ ~Holding(q))]
                     /\ follows' = [q \in Procs |-> follows[q] /\ q = p]
                     /\ lastSweep' = IF follows[p] THEN lastSweep ELSE NoSweep
                ELSE UNCHANGED <<removed, undisturbed, follows, lastSweep>>
    /\ UNCHANGED <<tidyBlacklistCASGuard, now, bufferDuration, tags, result, evals, sameNow, writes>>

(* the deferred store is missing: the guard stays set *)
ReleaseForgotten(p) == UNCHANGED tidyBlacklistCASGuard

(* line 39: the deferred atomic.StoreUint32(&b.tidyBlacklistCASGuard, 0) *)
Release(p) == tidyBlacklistCASGuard' = [tidyBlacklistCASGuard EXCEPT ![BackendOf(p)] = 0]

(* a return of an invocation that grabbed the guard runs the deferred      *)
(* store; the caller is left with the error and the locals are gone        *)
Return(p) ==
    /\ pc[p] = "return"
    /\ Release(p)
    /\ pc' = [pc EXCEPT ![p] = "done"]
    /\ sameNow' = [sameNow EXCEPT ![p] = TRUE]
    /\ bufferDuration' = [bufferDuration EXCEPT ![p] = 0]
    /\ tags' = [tags EXCEPT ![p] = <<>>]
    /\ idx' = [idx EXCEPT ![p] = 1]
    /\ result' = [result EXCEPT ![p] = 0]
    /\ trace' = [trace EXCEPT ![p] = <<>>]
    /\ evals' = [evals EXCEPT ![p] = <<>>]
    /\ removed' = [removed EXCEPT ![p] = {}]
    /\ undisturbed' = [undisturbed EXCEPT ![p] = TRUE]
    /\ follows' = [q \in Procs |-> FALSE]
    /\ lastSweep' = IF err[p].kind = "nil" /\ undisturbed[p] /\ sameNow[p]
                    THEN [valid |-> TRUE, buf |-> bufferDuration[p]]
                    ELSE NoSweep
    /\ UNCHANGED <<storage, now, err, writes>>

(* the clock read by time.Now() advances *)
Tick ==
    /\ now < MaxNow
    /\ now' = now + 1
    /\ sameNow' = [q \in Procs |-> sameNow[q] /\ ~Holding(q)]
    /\ follows' = [q \in Procs |-> FALSE]
    /\ lastSweep' = NoSweep
    /\ UNCHANGED <<tidyBlacklistCASGuard, storage, pc, bufferDuration, tags, idx, result, err,
                   trace, evals, removed, undisturbed, writes>>

(* another actor changes the storage from under the sweeps *)
Written ==
    /\ writes < MaxWrites
    /\ writes' = writes + 1
    /\ undisturbed' = [q \in Procs |-> undisturbed[q] /\ ~Holding(q)]
    /\ follows' = [q \in Procs |-> FALSE]
    /\ lastSweep' = NoSweep
    /\ UNCHANGED <<tidyBlacklistCASGuard, now, pc, bufferDuration, tags, idx, result, err,
                   trace, evals, removed, sameNow>>

(* another actor blacklists a role tag: an entry is written under the prefix *)
Put(tag, v) ==
    /\ storage' = Store(storage, GetKey(tag), v)
    /\ storage' # storage
    /\ Written

(* another actor removes a blacklist entry *)
ExternalDelete(tag) ==
    /\ GetKey(tag) \in DOMAIN storage
    /\ storage' = Remove(storage, GetKey(tag))
    /\ Written

Next ==
    \/ \E p \in Procs, b \in 0..MaxBuffer : Invoke(p, b)
    \/ \E p \in Procs : List(p)
    \/ \E p \in Procs : Get(p)
    \/ \E p \in Procs : Eval(p)
    \/ \E p \in Procs : Delete(p)
    \/ \E p \in Procs : Return(p)
    \/ Tick
    \/ \E t \in Tags, v \in Values : Put(t, v)
    \/ \E t \in Tags : ExternalDelete(t)

Spec == Init /\ [][Next]_vars
SpecSweep == InitSweep /\ [][Next]_vars
SpecBackends == InitBackends /\ [][Next]_vars

(* a step of the goroutine that runs the sweep of p *)
Step(p) == List(p) \/ Get(p) \/ Eval(p) \/ Delete(p) \/ Return(p)
(* the goroutine of a sweep is scheduled again and again, and every        *)
(* storage call it makes returns                                           *)
Fairness == \A p \in Procs : WF_vars(Step(p))
SpecLate == InitLate /\ [][Next]_vars
SpecFair == SpecLate /\ Fairness

(* ======================================================================= *)
(* Properties                                                              *)
(* ======================================================================= *)

OthersOf(p) == {q \in Procs \ {p} : BackendOf(q) = BackendOf(p)}
Ops(p, op) == {i \in DOMAIN trace[p] : trace[p][i].op = op}

(* C1: mutual exclusion -- of the invocations of tidyBlacklistRoleTag on   *)
(* one backend at most one is between its successful CAS and its return,   *)
(* so no two are in the List/Get/Delete phase together.                    *)
C1_MutualExclusion ==
    \A p \in Procs : \A q \in OthersOf(p) : ~(Holding(p) /\ Holding(q))

(* p1 is fetching an entry while p2 has been turned away *)
C1_Witness ==
    /\ pc["p1"] = "get"
    /\ pc["p2"] = "done"
    /\ err["p2"] = AlreadyRunning

(* C2: an invocation that starts while another invocation of the same      *)
(* backend holds the guard returns the "already running" error and makes   *)
(* no List, Get or Delete call: it ends in that very step, the storage and *)
(* its record of storage calls untouched.                                  *)
C2_RejectedDoesNothing ==
    [][\A p \in Procs :
          (/\ pc[p] \in {"idle", "done"}
           /\ \E q \in OthersOf(p) : Holding(q)
           /\ \E b \in 0..MaxBuffer : Invoke(p, b))
          => /\ pc'[p] = "done"
             /\ err'[p] = AlreadyRunning
             /\ trace'[p] = <<>>
             /\ storage' = storage]_vars

(* p2 has been turned away while p1 was about to delete an entry *)
C2_Witness ==
    /\ pc["p1"] = "delete"
    /\ pc["p2"] = "done"
    /\ err["p2"] = AlreadyRunning
    /\ trace["p2"] = <<>>

(* C3: guard release -- every return of an invocation that grabbed the     *)
(* guard, whatever its outcome, leaves the guard at 0, and an invocation   *)
(* that starts when no other invocation of its backend is running grabs    *)
(* the guard: it is never rejected because of an invocation that returned. *)
C3_GuardReleased ==
    [][\A p \in Procs :
          /\ (pc[p] = "return" /\ pc'[p] = "done")
                => tidyBlacklistCASGuard'[BackendOf(p)] = 0
          /\ (/\ pc[p] \in {"idle", "done"}
              /\ \A q \in OthersOf(p) : ~Holding(q)
              /\ \E b \in 0..MaxBuffer : Invoke(p, b))
                => pc'[p] = "list"]_vars

(* p1 returned a decode failure and p2, started after that, is sweeping *)
C3_Witness ==
    /\ pc["p1"] = "done"
    /\ err["p1"] = DecodeErr
    /\ pc["p2"] = "list"
    /\ tidyBlacklistCASGuard["b1"] = 1

(* ----------------------------------------------------------------------- *)
(* The sweep itself                                                        *)
(* ----------------------------------------------------------------------- *)

(* the sweep of p is over: it is at a return statement *)
Finished(p) == pc[p] = "return"
Succeeded(p) == Finished(p) /\ err[p].kind = "nil"
(* the expiry test as the specification states it *)
Expired(e, buf) == e.at > e.exp + buf
DeleteKeysIssued(p) == {trace[p][i].key : i \in Ops(p, "Delete")}
(* no storage call of p concerns a tag listed after the current one *)
NoLaterOps(p) ==
    \A j \in (idx[p] + 1)..Len(tags[p]) : \A i \in DOMAIN trace[p] :
        trace[p][i].key \notin {GetKey(tags[p][j]), DeleteKey(tags[p][j])}
(* p stopped at an entry: its last storage call is a Get or a Delete *)
EntryFailure(p) ==
    /\ Finished(p)
    /\ err[p].kind # "nil"
    /\ trace[p] # <<>>
    /\ trace[p][Len(trace[p])].op \in {"Get", "Delete"}

(* C4: expiration boundary -- after a sweep with buffer B that ran to      *)
(* completion with nobody else writing, a well-formed entry with           *)
(* expiration time T is gone from the storage if and only if now > T + B   *)
(* held when it was evaluated; at now = T + B and now < T + B it is still  *)
(* stored.                                                                 *)
C4_ExpirationBoundary ==
    \A p \in Procs :
        (Succeeded(p) /\ undisturbed[p]) =>
            \A i \in DOMAIN evals[p] :
                (GetKey(evals[p][i].tag) \notin DOMAIN storage)
                    <=> Expired(evals[p][i], bufferDuration[p])

(* C5 as claimed: a sweep that meets an empty payload has issued no Delete *)
(* and removed no entry.                                                   *)
C5_NonPartialAbort ==
    \A p \in Procs :
        (Finished(p) /\ err[p].kind = "actual tag is empty") =>
            /\ Ops(p, "Delete") = {}
            /\ removed[p] = {}

(* C5 as amended: a Get that returns an empty payload for the entry at     *)
(* position k is the last storage call of the sweep, which stops with the  *)
(* empty-entry error for that tag: no Delete is issued for entry k and no  *)
(* Get or Delete for an entry after k; the entries before k have been      *)
(* evaluated in listing order and a Delete has been issued for exactly     *)
(* those that were expired beyond the buffer.                              *)
C5_AbortAtEmptyEntry ==
    \A p \in Procs : \A i \in Ops(p, "Get") :
        trace[p][i].res = "" =>
            /\ i = Len(trace[p])
            /\ Finished(p)
            /\ idx[p] <= Len(tags[p])
            /\ err[p] = Errorf("actual tag is empty", tags[p][idx[p]])
            /\ trace[p][i].key = GetKey(tags[p][idx[p]])
            /\ NoLaterOps(p)
            /\ Len(evals[p]) = idx[p] - 1
            /\ \A j \in DOMAIN evals[p] : evals[p][j].tag = tags[p][j]
            /\ DeleteKeysIssued(p) =
                 {DeleteKey(evals[p][j].tag) :
                    j \in {n \in DOMAIN evals[p] : Expired(evals[p][n], bufferDuration[p])}}

(* the second listed entry is empty and a Delete was issued for the first *)
C5_Witness ==
    /\ Finished("p1")
    /\ err["p1"].kind = "actual tag is empty"
    /\ idx["p1"] = 2
    /\ Ops("p1", "Delete") # {}

(* C6: key consistency -- every Delete call is made with the key of the    *)
(* Get call just before it, the key of the entry that was evaluated.       *)
C6_KeyConsistency ==
    \A p \in Procs : \A i \in Ops(p, "Delete") :
        /\ i > 1
        /\ trace[p][i - 1].op = "Get"
        /\ trace[p][i].key = trace[p][i - 1].key

(* C7: idempotence -- a sweep that returns nil, run directly after a sweep *)
(* that returned nil, with the same buffer, the clock standing still and   *)
(* nobody else writing, issues no Delete and removes nothing.              *)
C7_Idempotence ==
    \A p \in Procs :
        (/\ Succeeded(p)
         /\ follows[p] /\ undisturbed[p] /\ sameNow[p]
         /\ lastSweep.valid
         /\ lastSweep.buf = bufferDuration[p])
        => /\ Ops(p, "Delete") = {}
           /\ removed[p] = {}

(* C8: fail-fast on fetch failure -- a Get that fails for the entry at     *)
(* position k is the last storage call of the sweep, which returns that    *)
(* failure wrapped with the tag: no Get or Delete follows for an entry     *)
(* after k.                                                                *)
C8_FailFastFetch ==
    \A p \in Procs : \A i \in Ops(p, "Get") :
        trace[p][i].res = "error" =>
            /\ i = Len(trace[p])
            /\ Finished(p)
            /\ idx[p] <= Len(tags[p])
            /\ trace[p][i].key = GetKey(tags[p][idx[p]])
            /\ err[p] = Wrapf("error fetching tag", tags[p][idx[p]], StorageErr("get"))
            /\ NoLaterOps(p)
            /\ Cardinality(Ops(p, "Get")) = idx[p]

(* the Get of the first of two listed entries failed *)
C8_Witness ==
    /\ Finished("p1")
    /\ err["p1"].kind = "error fetching tag"
    /\ idx["p1"] = 1
    /\ Len(tags["p1"]) = 2

(* C9: a listed key whose Get returns no record is not skipped -- that Get *)
(* is the last storage call of the sweep, which stops with an error naming *)
(* the tag; no later entry is processed.  Another actor removing the       *)
(* record between the List and the Get is such a case.                     *)
C9_NilEntryAborts ==
    \A p \in Procs : \A i \in Ops(p, "Get") :
        trace[p][i].res = "nil" =>
            /\ i = Len(trace[p])
            /\ Finished(p)
            /\ idx[p] <= Len(tags[p])
            /\ trace[p][i].key = GetKey(tags[p][idx[p]])
            /\ err[p] = Errorf("tag entry is nil", tags[p][idx[p]])
            /\ NoLaterOps(p)
            /\ Cardinality(Ops(p, "Get")) = idx[p]

(* the first of two listed entries was removed by another actor after the  *)
(* List                                                                    *)
C9_Witness ==
    /\ Finished("p1")
    /\ err["p1"].kind = "tag entry is nil"
    /\ idx["p1"] = 1
    /\ Len(tags["p1"]) = 2
    /\ ~undisturbed["p1"]
    /\ GetKey(tags["p1"][1]) \notin DOMAIN storage

(* C10 as claimed: every failure at an entry is returned as an error that  *)
(* names the tag of the entry the sweep stopped at.                        *)
C10_ErrorsNameKey ==
    \A p \in Procs :
        EntryFailure(p) =>
            /\ idx[p] <= Len(tags[p])
            /\ err[p].tag = tags[p][idx[p]]

(* C10 as amended: a fetch failure, a missing entry, an empty entry and a  *)
(* delete failure are returned as errors that name the tag of the entry    *)
(* the sweep stopped at; a decode failure is returned as the bare decode   *)
(* error, which names no tag.                                              *)
C10_ErrorsNameKeyButDecode ==
    \A p \in Procs :
        EntryFailure(p) =>
            LET last == trace[p][Len(trace[p])]
                tag == tags[p][idx[p]]
            IN /\ idx[p] <= Len(tags[p])
               /\ last.key = IF last.op = "Get" THEN GetKey(tag) ELSE DeleteKey(tag)
               /\ IF last.op = "Delete"
                    THEN err[p].kind = "error deleting tag" /\ err[p].tag = tag
                  ELSE IF last.res = "error"
                    THEN err[p].kind = "error fetching tag" /\ err[p].tag = tag
                  ELSE IF last.res = "nil"
                    THEN err[p].kind = "tag entry is nil" /\ err[p].tag = tag
                  ELSE IF last.res = ""
                    THEN err[p].kind = "actual tag is empty" /\ err[p].tag = tag
                  ELSE err[p] = DecodeErr /\ err[p].tag = NoTag

(* the sweep stopped at the second listed entry, which does not decode *)
C10_Witness ==
    /\ Finished("p1")
    /\ err["p1"] = DecodeErr
    /\ idx["p1"] = 2
    /\ trace["p1"][Len(trace["p1"])].res = Garbage

(* ----------------------------------------------------------------------- *)
(* Outcomes                                                                *)
(* ----------------------------------------------------------------------- *)

ListOk(p) == trace[p] # <<>> /\ trace[p][1] = Op("List", ListPrefix, "keys")
ListFailed(p) == trace[p] # <<>> /\ trace[p][1] = Op("List", ListPrefix, "error")
(* the Get of the tag returned a record that is present, not empty and decodes *)
FetchedOk(p, tag) ==
    \E i \in Ops(p, "Get") :
        trace[p][i].key = GetKey(tag) /\ Decodable(trace[p][i].res)
(* the tags p issued a Delete for that succeeded *)
DeletedTags(p) ==
    {tags[p][j] : j \in {n \in DOMAIN tags[p] :
        \E i \in Ops(p, "Delete") :
            trace[p][i] = Op("Delete", DeleteKey(tags[p][n]), "ok")}}
NoCallFailed(p) == \A i \in DOMAIN trace[p] : trace[p][i].res # "error"

(* C11: no error is swallowed -- an invocation that grabbed the guard      *)
(* returns nil if and only if List succeeded, every listed key was fetched *)
(* with a present, non-empty, decodable record and every Delete it issued  *)
(* succeeded; otherwise it returns an error.                               *)
C11_NoErrorSwallowed ==
    \A p \in Procs :
        Finished(p) =>
            (err[p] = Nil <=>
                /\ ListOk(p)
                /\ \A j \in DOMAIN tags[p] : FetchedOk(p, tags[p][j])
                /\ \A i \in Ops(p, "Delete") : trace[p][i].res = "ok")

(* a sweep over two entries returns nil after a Delete *)
C11_Witness ==
    /\ Succeeded("p1")
    /\ Len(tags["p1"]) = 2
    /\ Ops("p1", "Delete") # {}

(* C12: empty namespace -- when List returns no key the sweep returns nil  *)
(* with the List as its only storage call, and its return leaves the guard *)
(* at 0 and nil with the caller.                                           *)
C12_EmptyNamespace ==
    [][\A p \in Procs :
          (Finished(p) /\ ListOk(p) /\ tags[p] = <<>>) =>
              /\ err[p] = Nil
              /\ Len(trace[p]) = 1
              /\ pc'[p] # pc[p] =>
                   /\ pc'[p] = "done"
                   /\ err'[p] = Nil
                   /\ tidyBlacklistCASGuard'[BackendOf(p)] = 0]_vars

(* the sweep listed an empty namespace and returned nil *)
C12_Witness ==
    /\ pc["p1"] = "done"
    /\ err["p1"] = Nil
    /\ lastSweep.valid
    /\ ListKeys(storage, ListPrefix) = {}
    /\ tidyBlacklistCASGuard["b1"] = 0

(* C13: List failure -- when List fails the sweep returns the very error   *)
(* List produced, with the List as its only storage call, and its return   *)
(* leaves the guard at 0.                                                  *)
C13_ListFailure ==
    [][\A p \in Procs :
          (Finished(p) /\ ListFailed(p)) =>
              /\ err[p] = StorageErr("list")
              /\ Len(trace[p]) = 1
              /\ pc'[p] # pc[p] =>
                   /\ pc'[p] = "done"
                   /\ err'[p] = StorageErr("list")
                   /\ tidyBlacklistCASGuard'[BackendOf(p)] = 0]_vars

(* the sweep returned the error of List *)
C13_Witness ==
    /\ pc["p1"] = "done"
    /\ err["p1"] = StorageErr("list")
    /\ tidyBlacklistCASGuard["b1"] = 0
    /\ ListKeys(storage, ListPrefix) # {}

(* two sweeps, one on each backend, have run over the same entries at the  *)
(* same instant with the same buffer                                       *)
SameRun(p, q) ==
    /\ Finished(p) /\ Finished(q)
    /\ bufferDuration[p] = bufferDuration[q]
    /\ undisturbed[p] /\ undisturbed[q]
    /\ sameNow[p] /\ sameNow[q]
    /\ removed[p] = {} /\ removed[q] = {}

GetCount(p, i) == Cardinality({k \in Ops(p, "Get") : k <= i})

(* C15: strictly sequential processing -- the storage calls of a sweep are *)
(* List, then for each listed key in listing order one Get optionally      *)
(* followed by one Delete of that same tag: the k-th Get is for the k-th   *)
(* listed key and is issued only after the call before it has completed    *)
(* without error, and a Delete comes directly after the Get of its tag,    *)
(* which returned a record that decodes.                                   *)
C15_Sequential ==
    \A p \in Procs :
        /\ (Holding(p) /\ pc[p] # "list") =>
               /\ trace[p] # <<>>
               /\ Ops(p, "List") = {1}
               /\ trace[p][1].key = ListPrefix
        /\ \A i \in DOMAIN trace[p] :
               /\ trace[p][i].op = "Get" =>
                     /\ i > 1
                     /\ GetCount(p, i) <= Len(tags[p])
                     /\ trace[p][i].key = GetKey(tags[p][GetCount(p, i)])
                     /\ trace[p][i - 1].res # "error"
                     /\ trace[p][i - 1].op = "Get" => Decodable(trace[p][i - 1].res)
               /\ trace[p][i].op = "Delete" =>
                     /\ i > 1
                     /\ trace[p][i - 1].op = "Get"
                     /\ Decodable(trace[p][i - 1].res)
                     /\ trace[p][i].key = DeleteKey(tags[p][GetCount(p, i)])

(* the sweep fetched the first entry, issued its Delete, fetched the       *)
(* second entry and left it                                                *)
C15_Witness ==
    /\ Succeeded("p1")
    /\ Len(tags["p1"]) = 2
    /\ Len(trace["p1"]) = 4
    /\ trace["p1"][3].op = "Delete"
    /\ trace["p1"][4].op = "Get"

(* ----------------------------------------------------------------------- *)
(* Termination                                                             *)
(* ----------------------------------------------------------------------- *)

(* the calls of p with this operation and key *)
Calls(p, op, key) == {i \in Ops(p, op) : trace[p][i].key = key}

(* p made at most one List and, for each listed key, at most one Get and   *)
(* one Delete, and none for another key; a call that failed is its last.   *)
NoRetry(p) ==
    /\ Cardinality(Ops(p, "List")) <= 1
    /\ \A t \in Tags :
          /\ Cardinality(Calls(p, "Get", GetKey(t))) <= 1
          /\ Cardinality(Calls(p, "Delete", DeleteKey(t))) <= 1
    /\ \A i \in Ops(p, "Get") : \E j \in DOMAIN tags[p] : trace[p][i].key = GetKey(tags[p][j])
    /\ \A i \in Ops(p, "Delete") : \E j \in DOMAIN tags[p] : trace[p][i].key = DeleteKey(tags[p][j])
    /\ \A i \in DOMAIN trace[p] :
          trace[p][i].res = "error" => (i = Len(trace[p]) /\ Finished(p) /\ err[p] # Nil)

(* the outcomes an invocation that is over can be said to have *)
Outcomes(p) ==
    {o \in {"CompletedSuccess", "CompletedFailure", "RejectedAlreadyRunning"} :
        \/ o = "CompletedSuccess" /\ err[p] = Nil
        \/ o = "CompletedFailure" /\ err[p].kind \notin {"nil", "already running"}
        \/ o = "RejectedAlreadyRunning" /\ err[p] = AlreadyRunning}

(* C16: termination without retry -- every invocation that grabbed the     *)
(* guard comes to its return, having made at most one List and at most one *)
(* Get and one Delete per listed key and having re-issued no failed call;  *)
(* an invocation that is over has exactly one of the outcomes success,     *)
(* failure with a reason, rejected as already running, and one that        *)
(* grabbed the guard is not rejected.                                      *)
C16_TerminationNoRetry ==
    /\ [](\A p \in Procs :
            /\ NoRetry(p)
            /\ pc[p] \in {"return", "done"} => Cardinality(Outcomes(p)) = 1
            /\ Finished(p) => "RejectedAlreadyRunning" \notin Outcomes(p))
    /\ \A p \in Procs : Holding(p) ~> (pc[p] = "done")

(* p1 is over with the failure of a Delete, p2 was turned away meanwhile *)
C16_Witness ==
    /\ pc["p1"] = "done"
    /\ err["p1"] = Wrapf("error deleting tag", "a", StorageErr("delete"))
    /\ pc["p2"] = "done"
    /\ err["p2"] = AlreadyRunning
    /\ tidyBlacklistCASGuard["b1"] = 0

(* ----------------------------------------------------------------------- *)
(* What a sweep changes                                                    *)
(* ----------------------------------------------------------------------- *)

(* the step is not a write of another actor *)
OwnStep == writes' = writes
(* the keys that the step takes out of the storage *)
Dropped == (DOMAIN storage) \ (DOMAIN storage')
(* p has just found the entry under the key expired beyond its buffer *)
FoundExpired(p, key) ==
    /\ pc[p] = "delete"
    /\ evals[p] # <<>>
    /\ key = GetKey(evals[p][Len(evals[p])].tag)
    /\ Expired(evals[p][Len(evals[p])], bufferDuration[p])

(* C17: the sweep only ever removes entries -- no step of an invocation    *)
(* adds a key to the storage or changes a payload, a key leaves the        *)
(* storage only when the sweep has just found its entry expired beyond the *)
(* buffer, and after a sweep that nobody disturbed every entry it found    *)
(* not expired (now <= expirationTime + buffer) is still stored with the   *)
(* payload it read.                                                        *)
C17_OnlyRemoves ==
    /\ [][OwnStep =>
            /\ DOMAIN storage' \subseteq DOMAIN storage
            /\ \A k \in DOMAIN storage' : storage'[k] = storage[k]
            /\ \A k \in Dropped : \E p \in Procs : FoundExpired(p, k)]_vars
    /\ [](\A p \in Procs :
            (Finished(p) /\ undisturbed[p]) =>
                \A i \in DOMAIN evals[p] :
                    ~Expired(evals[p][i], bufferDuration[p]) =>
                        /\ GetKey(evals[p][i].tag) \in DOMAIN storage
                        /\ storage[GetKey(evals[p][i].tag)] = EncodeJSON(evals[p][i].exp))

(* an undisturbed sweep found one entry expired and issued its Delete,     *)
(* found the other not expired, and both are stored                        *)
C17_Witness ==
    /\ Finished("p1")
    /\ undisturbed["p1"]
    /\ Len(evals["p1"]) = 2
    /\ \E i \in 1..2 : ~Expired(evals["p1"][i], bufferDuration["p1"])
    /\ DeleteKeysIssued("p1") # {}
    /\ Cardinality(DOMAIN storage) = 2

(* ----------------------------------------------------------------------- *)
(* The guard                                                               *)
(* ----------------------------------------------------------------------- *)

(* the callers of the backend *)
CallersOf(b) == {p \in Procs : BackendOf(p) = b}
(* nobody else calls the backend of p *)
Alone(p) == \A q \in OthersOf(p) : pc[q] = "off"

(* C18: the guards of distinct backends are independent -- the guard of a  *)
(* backend is 1 exactly while one of its own callers is between its CAS    *)
(* and its return, and a caller that is alone on its backend is never      *)
(* rejected as already running, whatever sweep is in progress on another   *)
(* backend over the same storage.                                          *)
C18_GuardsIndependent ==
    /\ \A b \in Backends :
          tidyBlacklistCASGuard[b] = 1 <=> \E p \in CallersOf(b) : Holding(p)
    /\ \A p \in Procs : Alone(p) => err[p] # AlreadyRunning

(* the sweeps of the two backends are both in their loop, over the same    *)
(* storage                                                                 *)
C18_Witness ==
    /\ pc["p1"] = "get"
    /\ pc["p3"] = "delete"
    /\ tidyBlacklistCASGuard = [b \in Backends |-> 1]

(* the step is an invocation by p that is rejected as already running *)
Rejected(p) ==
    /\ \E b \in 0..MaxBuffer : Invoke(p, b)
    /\ err'[p] = AlreadyRunning

(* C19: a rejected invocation leaves the guard unchanged -- it finds the   *)
(* guard at 1 and leaves every guard as it is, so the guard of a backend   *)
(* is 1 as long as its holder runs and goes back to 0 only by the return   *)
(* of the invocation that grabbed it.                                      *)
C19_RejectedKeepsGuard ==
    /\ [][\A p \in Procs :
            /\ Rejected(p) =>
                  /\ tidyBlacklistCASGuard[BackendOf(p)] = 1
                  /\ UNCHANGED tidyBlacklistCASGuard
            /\ (tidyBlacklistCASGuard[BackendOf(p)] = 1 /\ tidyBlacklistCASGuard'[BackendOf(p)] = 0)
                  => \E q \in CallersOf(BackendOf(p)) : Finished(q) /\ pc'[q] = "done"]_vars
    /\ [](\A p \in Procs : Holding(p) => tidyBlacklistCASGuard[BackendOf(p)] = 1)

(* p2 was turned away and p1, past its loop, still holds the guard *)
C19_Witness ==
    /\ Finished("p1")
    /\ pc["p2"] = "done"
    /\ err["p2"] = AlreadyRunning
    /\ tidyBlacklistCASGuard["b1"] = 1
====
